---------------------------- MODULE Spec2Model ----------------------------
(***************************************************************************)
(* A model of smartmeal-app/scripts/preprocess_recipes.py: the field       *)
(* normalizers (clean_ingredient_name, parse_time), the classifiers        *)
(* (determine_difficulty, determine_meal_type, extract_cuisine,            *)
(* extract_dietary_tags), the sample generator (create_sample_recipes)     *)
(* and the sink (main).                                                    *)
(*                                                                         *)
(* Python strings are TLA+ strings; a character is a string of length 1.   *)
(* Every pure function is an operator of the same name, computed the way   *)
(* the code computes it, and has a specification of its own whose initial  *)
(* states draw the arguments and whose single action stores the result.    *)
(***************************************************************************)
EXTENDS Integers, Sequences, FiniteSets, TLC

VARIABLES
    pc,              \* control position of the running function
    ingredient,      \* clean_ingredient_name: the argument
    cleaned,         \* clean_ingredient_name: the value returned
    time_str,        \* parse_time: the argument, [isna, str]
    minutes,         \* parse_time: the value returned
    steps_count,     \* determine_difficulty: first argument
    total_time,      \* determine_difficulty: second argument
    difficulty,      \* determine_difficulty: the value returned
    keywords,        \* determine_meal_type, extract_cuisine, extract_dietary_tags
    name,            \* determine_meal_type, extract_cuisine
    meal_type,       \* determine_meal_type: the value returned
    cuisine,         \* extract_cuisine: the value returned
    ingredients,     \* extract_dietary_tags: first argument
    tags,            \* extract_dietary_tags: the value returned
    count,           \* create_sample_recipes: the argument
    i,               \* create_sample_recipes: the loop variable
    sample_recipes,  \* create_sample_recipes: the list being built
    recipes,         \* main: the list create_sample_recipes returned
    file,            \* the output file: [exists, content], content a sequence of chunks
    written,         \* main: how many chunks of the document json.dump has written
    console          \* the lines printed so far

cleanVars == <<ingredient, cleaned>>
timeVars == <<time_str, minutes>>
difficultyVars == <<steps_count, total_time, difficulty>>
classifyVars == <<keywords, name, meal_type, cuisine, ingredients, tags>>
genVars == <<count, i, sample_recipes>>
mainVars == <<recipes, file, written, console>>
vars == <<pc, cleanVars, timeVars, difficultyVars, classifyVars, genVars, mainVars>>

(* The variables of the functions a specification does not run. *)
IdleClean == ingredient = "" /\ cleaned = ""
IdleTime == time_str = [isna |-> TRUE, str |-> ""] /\ minutes = 0
IdleDifficulty == steps_count = 0 /\ total_time = 0 /\ difficulty = ""
IdleClassify ==
    /\ keywords = <<>> /\ name = "" /\ meal_type = "" /\ cuisine = ""
    /\ ingredients = <<>> /\ tags = <<>>
IdleGen == count = 0 /\ i = 0 /\ sample_recipes = <<>>
IdleMain ==
    /\ recipes = <<>> /\ file = [exists |-> FALSE, content |-> <<>>]
    /\ written = 0 /\ console = <<>>

---------------------------------------------------------------------------
(* Strings.                                                                *)

Char(s, k) == SubSeq(s, k, k)

UpperLetters == "ABCDEFGHIJKLMNOPQRSTUVWXYZ"
LowerLetters == "abcdefghijklmnopqrstuvwxyz"
Digits == "0123456789"

IndexIn(alphabet, c) ==
    IF \E k \in 1..Len(alphabet) : Char(alphabet, k) = c
    THEN CHOOSE k \in 1..Len(alphabet) : Char(alphabet, k) = c
    ELSE 0

CharsOf(alphabet) == {Char(alphabet, k) : k \in 1..Len(alphabet)}
UpperSet == CharsOf(UpperLetters)
LowerSet == CharsOf(LowerLetters)
DigitSet == CharsOf(Digits)

IsUpper(c) == c \in UpperSet
IsLower(c) == c \in LowerSet
IsDigit(c) == c \in DigitSet
(* \s of the re module, over the characters the model draws. *)
IsSpace(c) == c \in {" ", "\t", "\n"}
(* A word character (\w) of a text already reduced to [a-zA-Z0-9\s]. *)
IsAlnum(c) == IsUpper(c) \/ IsLower(c) \/ IsDigit(c)

(* str.lower() on one character: A-Z to a-z, any other character unchanged. *)
ToLower == [c \in UpperSet |-> Char(LowerLetters, IndexIn(UpperLetters, c))]
LowerChar(c) == IF c \in UpperSet THEN ToLower[c] ELSE c

RECURSIVE lower(_)
lower(s) == IF s = "" THEN "" ELSE LowerChar(Char(s, 1)) \o lower(SubSeq(s, 2, Len(s)))

(* word in text *)
Contains(text, word) ==
    \E k \in 1..(Len(text) - Len(word) + 1) : SubSeq(text, k, k + Len(word) - 1) = word

(* any(word in text for word in words), words a list *)
AnyIn(words, text) == \E k \in 1..Len(words) : Contains(text, words[k])

RECURSIVE join(_, _)
join(sep, list) ==
    IF list = <<>> THEN ""
    ELSE IF Len(list) = 1 THEN list[1]
    ELSE list[1] \o sep \o join(sep, Tail(list))

RECURSIVE strip(_)
strip(s) ==
    IF s = "" THEN ""
    ELSE IF IsSpace(Char(s, 1)) THEN strip(SubSeq(s, 2, Len(s)))
    ELSE IF IsSpace(Char(s, Len(s))) THEN strip(SubSeq(s, 1, Len(s) - 1))
    ELSE s

(* All concatenations of at most n fragments: the strings the inputs are drawn from. *)
RECURSIVE Concatenations(_, _)
Concatenations(fragments, n) ==
    IF n = 0 THEN {""}
    ELSE LET shorter == Concatenations(fragments, n - 1)
         IN shorter \cup {s \o f : s \in shorter, f \in fragments}

(* All lists of at most n elements of a set. *)
ListsUpTo(S, n) == UNION {[1..k -> S] : k \in 0..n}

---------------------------------------------------------------------------
(* determine_difficulty                                                    *)

MaxSteps == 11
MaxTime == 61

determine_difficulty_strict(steps, time) ==
    IF steps < 5 /\ time < 30 THEN "Easy"
    ELSE IF steps < 10 /\ time < 60 THEN "Medium"
    ELSE "Hard"

determine_difficulty(steps, time) ==
    IF steps <= 5 /\ time <= 30 THEN "Easy"
    ELSE IF steps <= 10 /\ time <= 60 THEN "Medium"
    ELSE "Hard"

InitDifficulty ==
    /\ pc = "call"
    /\ steps_count \in -1..MaxSteps
    /\ total_time \in -1..MaxTime
    /\ difficulty = ""
    /\ IdleClean /\ IdleTime /\ IdleClassify /\ IdleGen /\ IdleMain

CallDetermineDifficulty ==
    /\ pc = "call"
    /\ difficulty' = determine_difficulty(steps_count, total_time)
    /\ pc' = "return"
    /\ UNCHANGED <<steps_count, total_time, cleanVars, timeVars, classifyVars, genVars, mainVars>>

NextDifficulty == CallDetermineDifficulty

SpecDifficulty == InitDifficulty /\ [][NextDifficulty]_vars

(* C4: determine_difficulty returns Easy exactly when steps_count <= 5 and  *)
(* total_time <= 30, Medium exactly when that fails and steps_count <= 10   *)
(* and total_time <= 60, Hard in every other case, and nothing else.        *)
C4_DifficultyThresholds ==
    pc = "return" =>
        LET easy == steps_count <= 5 /\ total_time <= 30
            medium == ~easy /\ steps_count <= 10 /\ total_time <= 60
        IN /\ difficulty \in {"Easy", "Medium", "Hard"}
           /\ (difficulty = "Easy") <=> easy
           /\ (difficulty = "Medium") <=> medium
           /\ (difficulty = "Hard") <=> (~easy /\ ~medium)

(* The boundary case: 5 steps taking 31 minutes is Medium, no longer Easy. *)
C4_Witness ==
    /\ pc = "return" /\ steps_count = 5 /\ total_time = 31 /\ difficulty = "Medium"

---------------------------------------------------------------------------
(* clean_ingredient_name                                                   *)

CleanMaxFragments == 5
CleanFragments == {"a", "n", "the", " ", "\t", "!", "A", "Salt", "2"}

(* re.sub(r'[^a-zA-Z0-9\s]', '', s): drop every character outside the class. *)
RECURSIVE sub_special(_)
sub_special(s) ==
    IF s = "" THEN ""
    ELSE LET c == Char(s, 1)
             rest == sub_special(SubSeq(s, 2, Len(s)))
         IN IF IsAlnum(c) \/ IsSpace(c) THEN c \o rest ELSE rest

(* \b before position p of a text of word characters and whitespace. *)
WordBoundary(s, p) ==
    LET before == p > 1 /\ IsAlnum(Char(s, p - 1))
        after == p <= Len(s) /\ IsAlnum(Char(s, p))
    IN before # after

(* The alternative of (a|an|the) that \b(a|an|the)\b matches at p, "" when none: *)
(* the alternatives are tried in order and each must end at a \b.                *)
ArticleAt(s, p) ==
    LET fits(w) == /\ p + Len(w) - 1 <= Len(s)
                   /\ SubSeq(s, p, p + Len(w) - 1) = w
                   /\ WordBoundary(s, p + Len(w))
    IN IF ~WordBoundary(s, p) THEN ""
       ELSE IF fits("a") THEN "a"
       ELSE IF fits("an") THEN "an"
       ELSE IF fits("the") THEN "the"
       ELSE ""

(* re.sub(r'\b(a|an|the)\b', '', s) from position p on: leftmost matches, left to right. *)
RECURSIVE sub_articles(_, _)
sub_articles(s, p) ==
    IF p > Len(s) THEN ""
    ELSE LET w == ArticleAt(s, p)
         IN IF w # "" THEN sub_articles(s, p + Len(w))
            ELSE Char(s, p) \o sub_articles(s, p + 1)

clean_ingredient_name(raw) ==
    LET first == strip(sub_special(lower(raw)))
    IN strip(sub_articles(first, 1))

InitClean ==
    /\ pc = "call"
    /\ ingredient \in Concatenations(CleanFragments, CleanMaxFragments)
    /\ cleaned = ""
    /\ IdleTime /\ IdleDifficulty /\ IdleClassify /\ IdleGen /\ IdleMain

CallCleanIngredientName ==
    /\ pc = "call"
    /\ cleaned' = clean_ingredient_name(ingredient)
    /\ pc' = "return"
    /\ UNCHANGED <<ingredient, timeVars, difficultyVars, classifyVars, genVars, mainVars>>

NextClean == CallCleanIngredientName

SpecClean == InitClean /\ [][NextClean]_vars

(* Only lowercase letters, digits and single spaces: no other character, no two *)
(* adjacent spaces, no space at either end.                                     *)
Normalized(s) ==
    /\ \A k \in 1..Len(s) : IsLower(Char(s, k)) \/ IsDigit(Char(s, k)) \/ Char(s, k) = " "
    /\ \A k \in 1..(Len(s) - 1) : ~(Char(s, k) = " " /\ Char(s, k + 1) = " ")
    /\ s # "" => Char(s, 1) # " " /\ Char(s, Len(s)) # " "

(* C2: the result of clean_ingredient_name holds only characters of [a-z0-9 ],  *)
(* with no two adjacent spaces and no leading or trailing space, also after an  *)
(* article is removed from the middle of the text.                              *)
C2_CleanedIsNormalized == pc = "return" => Normalized(cleaned)

---------------------------------------------------------------------------
(* parse_time                                                              *)

TimeMaxFragments == 4
TimeFragments == {"1 ", "2", "30 ", "hour ", "min", "h", "r", "H"}

DigitOf == [c \in DigitSet |-> IndexIn(Digits, c) - 1]
DigitValue(c) == DigitOf[c]

(* int(s) of a run of decimal digits *)
RECURSIVE int(_)
int(s) ==
    IF s = "" THEN 0
    ELSE int(SubSeq(s, 1, Len(s) - 1)) * 10 + DigitValue(Char(s, Len(s)))

(* The longest run of digits that starts at position p. *)
RECURSIVE DigitRun(_, _)
DigitRun(s, p) ==
    IF p <= Len(s) /\ IsDigit(Char(s, p)) THEN Char(s, p) \o DigitRun(s, p + 1) ELSE ""

(* re.findall(r'(\d+)', s) from position p on *)
RECURSIVE findall_digits(_, _)
findall_digits(s, p) ==
    IF p > Len(s) THEN <<>>
    ELSE LET run == DigitRun(s, p)
         IN IF run = "" THEN findall_digits(s, p + 1)
            ELSE <<run>> \o findall_digits(s, p + Len(run))

HasHourMarkerCaseSensitive(s) == Contains(s, "hour") \/ Contains(s, "hr")

HasHourMarker(s) == Contains(lower(s), "hour") \/ Contains(lower(s), "hr")

parse_time(t) ==
    IF t.isna \/ t.str = "" THEN 0
    ELSE LET matches == findall_digits(t.str, 1)
         IN IF matches = <<>> THEN 0
            ELSE IF HasHourMarker(t.str) THEN int(matches[1]) * 60
            ELSE int(matches[1])

InitTime ==
    /\ pc = "call"
    /\ time_str \in {[isna |-> TRUE, str |-> ""]}
           \cup {[isna |-> FALSE, str |-> s] : s \in Concatenations(TimeFragments, TimeMaxFragments)}
    /\ minutes = 0
    /\ IdleClean /\ IdleDifficulty /\ IdleClassify /\ IdleGen /\ IdleMain

CallParseTime ==
    /\ pc = "call"
    /\ minutes' = parse_time(time_str)
    /\ pc' = "return"
    /\ UNCHANGED <<time_str, cleanVars, difficultyVars, classifyVars, genVars, mainVars>>

NextTime == CallParseTime

SpecTime == InitTime /\ [][NextTime]_vars

(* word occurs in s, letter case ignored *)
OccursIgnoringCase(s, word) ==
    \E k \in 1..(Len(s) - Len(word) + 1) :
        \A j \in 1..Len(word) : LowerChar(Char(s, k + j - 1)) = Char(word, j)

(* The first contiguous run of digits of s is s[a..b]. *)
IsFirstDigitRun(s, a, b) ==
    /\ \A k \in 1..(a - 1) : ~IsDigit(Char(s, k))
    /\ \A k \in a..b : IsDigit(Char(s, k))
    /\ b = Len(s) \/ ~IsDigit(Char(s, b + 1))

(* C3: parse_time returns a non-negative integer: 0 for an absent or empty input *)
(* or one without a digit; otherwise the value v of the first run of digits, and *)
(* v * 60 when the input contains 'hour' or 'hr' in any letter case.             *)
C3_ParseTime ==
    pc = "return" =>
        LET s == time_str.str
            hasDigit == \E k \in 1..Len(s) : IsDigit(Char(s, k))
        IN /\ minutes \in Nat
           /\ (time_str.isna \/ s = "" \/ ~hasDigit) => minutes = 0
           /\ (~time_str.isna /\ hasDigit) =>
                \E a \in 1..Len(s) : \E b \in a..Len(s) :
                    /\ IsFirstDigitRun(s, a, b)
                    /\ LET v == int(SubSeq(s, a, b))
                       IN minutes = IF OccursIgnoringCase(s, "hour") \/ OccursIgnoringCase(s, "hr")
                                    THEN v * 60 ELSE v

(* '1 hour 30 min' gives 60: the first number, scaled by the hour marker. *)
C3_Witness ==
    /\ pc = "return" /\ ~time_str.isna /\ time_str.str = "1 hour 30 min" /\ minutes = 60

---------------------------------------------------------------------------
(* determine_meal_type                                                     *)

MaxKeywords == 2
MealKeywords == {"Breakfast special", "dinner", "Snack", "re", "main", "quick"}
MealNames == {"Morning Oats", "Grilled Chicken", "Pancake stack", "Dessert",
              "ENTREE", "Remaining appetizers"}

breakfast_words == <<"breakfast", "pancake", "waffle", "cereal", "oatmeal">>
dinner_words == <<"dinner", "main", "entree">>
snack_words == <<"snack", "appetizer", "dessert">>

(* text = " ".join(keywords).lower() + " " + name.lower() *)
search_text(kws, nm) == lower(join(" ", kws)) \o " " \o lower(nm)

determine_meal_type_dinner_first(kws, nm) ==
    LET text == search_text(kws, nm)
    IN IF AnyIn(dinner_words, text) THEN "Dinner"
       ELSE IF AnyIn(breakfast_words, text) THEN "Breakfast"
       ELSE IF AnyIn(snack_words, text) THEN "Snack"
       ELSE "Lunch"

determine_meal_type(kws, nm) ==
    LET text == search_text(kws, nm)
    IN IF AnyIn(breakfast_words, text) THEN "Breakfast"
       ELSE IF AnyIn(dinner_words, text) THEN "Dinner"
       ELSE IF AnyIn(snack_words, text) THEN "Snack"
       ELSE "Lunch"

InitMeal ==
    /\ pc = "call"
    /\ keywords \in ListsUpTo(MealKeywords, MaxKeywords)
    /\ name \in MealNames
    /\ meal_type = "" /\ cuisine = "" /\ ingredients = <<>> /\ tags = <<>>
    /\ IdleClean /\ IdleTime /\ IdleDifficulty /\ IdleGen /\ IdleMain

CallDetermineMealType ==
    /\ pc = "call"
    /\ meal_type' = determine_meal_type(keywords, name)
    /\ pc' = "return"
    /\ UNCHANGED <<keywords, name, cuisine, ingredients, tags>>
    /\ UNCHANGED <<cleanVars, timeVars, difficultyVars, genVars, mainVars>>

NextMeal == CallDetermineMealType

SpecMeal == InitMeal /\ [][NextMeal]_vars

(* Some word of the set occurs, letter case ignored, in the keywords joined by *)
(* spaces, a space, and the name.                                              *)
Mentions(kws, nm, words) ==
    \E w \in words : OccursIgnoringCase(join(" ", kws) \o " " \o nm, w)

(* C5: determine_meal_type returns the first matching category in the order     *)
(* Breakfast, Dinner, Snack over the lowercased keywords and name, so Breakfast *)
(* wins over Dinner and Snack and Dinner over Snack, and Lunch when none matches. *)
C5_MealTypePriority ==
    pc = "return" =>
        LET b == Mentions(keywords, name, {"breakfast", "pancake", "waffle", "cereal", "oatmeal"})
            d == Mentions(keywords, name, {"dinner", "main", "entree"})
            n == Mentions(keywords, name, {"snack", "appetizer", "dessert"})
        IN /\ b => meal_type = "Breakfast"
           /\ (~b /\ d) => meal_type = "Dinner"
           /\ (~b /\ ~d /\ n) => meal_type = "Snack"
           /\ (~b /\ ~d /\ ~n) => meal_type = "Lunch"

(* A Dinner keyword and a Snack keyword with a Breakfast name: Breakfast. *)
C5_Witness ==
    /\ pc = "return" /\ keywords = <<"dinner", "Snack">> /\ name = "Pancake stack"
    /\ meal_type = "Breakfast"

---------------------------------------------------------------------------
(* extract_cuisine                                                         *)

CuisineKeywords == {"Thai", "curry", "wok", "Pasta", "salsa", "quick"}
CuisineNames == {"Chicken Tikka Masala", "Green Curry Thai", "Pad Thai", "Taco Pizza",
                 "Fried Rice", "Szechuan Wok"}

(* The dict of the code, in its insertion order, which items() follows. *)
cuisines ==
    << [cuisine |-> "indian", keywords_list |-> <<"indian", "curry", "masala", "tandoori", "biryani">>],
       [cuisine |-> "chinese", keywords_list |-> <<"chinese", "szechuan", "cantonese", "wok">>],
       [cuisine |-> "italian", keywords_list |-> <<"italian", "pasta", "pizza", "risotto">>],
       [cuisine |-> "mexican", keywords_list |-> <<"mexican", "taco", "burrito", "enchilada", "salsa">>],
       [cuisine |-> "thai", keywords_list |-> <<"thai", "pad thai", "curry thai">>] >>

(* for cuisine, keywords_list in table[k..]: return the first that matches *)
RECURSIVE first_cuisine(_, _, _)
first_cuisine(table, k, text) ==
    IF k > Len(table) THEN "international"
    ELSE IF AnyIn(table[k].keywords_list, text) THEN table[k].cuisine
    ELSE first_cuisine(table, k + 1, text)

(* the same loop running over the table from its last entry to its first *)
RECURSIVE last_cuisine(_, _, _)
last_cuisine(table, k, text) ==
    IF k < 1 THEN "international"
    ELSE IF AnyIn(table[k].keywords_list, text) THEN table[k].cuisine
    ELSE last_cuisine(table, k - 1, text)

extract_cuisine_reversed(kws, nm) == last_cuisine(cuisines, Len(cuisines), search_text(kws, nm))

extract_cuisine(kws, nm) == first_cuisine(cuisines, 1, search_text(kws, nm))

InitCuisine ==
    /\ pc = "call"
    /\ keywords \in ListsUpTo(CuisineKeywords, MaxKeywords)
    /\ name \in CuisineNames
    /\ meal_type = "" /\ cuisine = "" /\ ingredients = <<>> /\ tags = <<>>
    /\ IdleClean /\ IdleTime /\ IdleDifficulty /\ IdleGen /\ IdleMain

CallExtractCuisine ==
    /\ pc = "call"
    /\ cuisine' = extract_cuisine(keywords, name)
    /\ pc' = "return"
    /\ UNCHANGED <<keywords, name, meal_type, ingredients, tags>>
    /\ UNCHANGED <<cleanVars, timeVars, difficultyVars, genVars, mainVars>>

NextCuisine == CallExtractCuisine

SpecCuisine == InitCuisine /\ [][NextCuisine]_vars

(* C6: extract_cuisine returns the first cuisine in the order indian, chinese,   *)
(* italian, mexican, thai one of whose keywords occurs in the lowercased         *)
(* keywords and name, international when none does, and nothing else.            *)
C6_CuisineOrder ==
    pc = "return" =>
        LET in == Mentions(keywords, name, {"indian", "curry", "masala", "tandoori", "biryani"})
            ch == Mentions(keywords, name, {"chinese", "szechuan", "cantonese", "wok"})
            it == Mentions(keywords, name, {"italian", "pasta", "pizza", "risotto"})
            mx == Mentions(keywords, name, {"mexican", "taco", "burrito", "enchilada", "salsa"})
            th == Mentions(keywords, name, {"thai", "pad thai", "curry thai"})
        IN /\ cuisine \in {"indian", "chinese", "italian", "mexican", "thai", "international"}
           /\ in => cuisine = "indian"
           /\ (~in /\ ch) => cuisine = "chinese"
           /\ (~in /\ ~ch /\ it) => cuisine = "italian"
           /\ (~in /\ ~ch /\ ~it /\ mx) => cuisine = "mexican"
           /\ (~in /\ ~ch /\ ~it /\ ~mx /\ th) => cuisine = "thai"
           /\ (~in /\ ~ch /\ ~it /\ ~mx /\ ~th) => cuisine = "international"

(* A text with both 'curry' and 'thai' is indian, the earlier of the two. *)
C6_Witness ==
    /\ pc = "return" /\ keywords = <<>> /\ name = "Green Curry Thai" /\ cuisine = "indian"

---------------------------------------------------------------------------
(* extract_dietary_tags                                                    *)

MaxIngredients == 2
TagIngredients == {"lentils", "rice", "Chicken breast", "Butter", "eggplant"}
TagKeywords == {"Keto", "low-carb", "low", "carb", "Gluten Free", "gluten-free", "quick"}

meat_keywords == <<"chicken", "beef", "pork", "lamb", "meat", "fish", "seafood">>
dairy_keywords == <<"milk", "cheese", "butter", "cream", "egg">>

(* tags.append(tag) when the condition holds *)
AppendIf(list, cond, tag) == IF cond THEN Append(list, tag) ELSE list

(* the keto rule without its 'low-carb' and 'low carb' triggers *)
dietary_tags_keto_word_only(has_meat, has_dairy, keywords_text) ==
    LET t1 == AppendIf(<<>>, ~has_meat, "vegetarian")
        t2 == AppendIf(t1, ~has_meat /\ ~has_dairy, "vegan")
        t3 == AppendIf(t2, Contains(keywords_text, "gluten-free")
                             \/ Contains(keywords_text, "gluten free"), "gluten-free")
        t4 == AppendIf(t3, Contains(keywords_text, "keto"), "keto")
    IN AppendIf(t4, Contains(keywords_text, "low-carb")
                      \/ Contains(keywords_text, "low carb"), "low-carb")

dietary_tags(has_meat, has_dairy, keywords_text) ==
    LET t1 == AppendIf(<<>>, ~has_meat, "vegetarian")
        t2 == AppendIf(t1, ~has_meat /\ ~has_dairy, "vegan")
        t3 == AppendIf(t2, Contains(keywords_text, "gluten-free")
                             \/ Contains(keywords_text, "gluten free"), "gluten-free")
        t4 == AppendIf(t3, Contains(keywords_text, "keto")
                             \/ Contains(keywords_text, "low-carb")
                             \/ Contains(keywords_text, "low carb"), "keto")
    IN AppendIf(t4, Contains(keywords_text, "low-carb")
                      \/ Contains(keywords_text, "low carb"), "low-carb")

extract_dietary_tags(ings, kws) ==
    LET ingredients_text == lower(join(" ", ings))
        keywords_text == lower(join(" ", kws))
        has_meat == AnyIn(meat_keywords, ingredients_text)
        has_dairy == AnyIn(dairy_keywords, ingredients_text)
    IN dietary_tags(has_meat, has_dairy, keywords_text)

InitTags ==
    /\ pc = "call"
    /\ ingredients \in ListsUpTo(TagIngredients, MaxIngredients)
    /\ keywords \in ListsUpTo(TagKeywords, MaxKeywords)
    /\ name = "" /\ meal_type = "" /\ cuisine = "" /\ tags = <<>>
    /\ IdleClean /\ IdleTime /\ IdleDifficulty /\ IdleGen /\ IdleMain

CallExtractDietaryTags ==
    /\ pc = "call"
    /\ tags' = extract_dietary_tags(ingredients, keywords)
    /\ pc' = "return"
    /\ UNCHANGED <<keywords, name, meal_type, cuisine, ingredients>>
    /\ UNCHANGED <<cleanVars, timeVars, difficultyVars, genVars, mainVars>>

NextTags == CallExtractDietaryTags

SpecTags == InitTags /\ [][NextTags]_vars

TagOrder == <<"vegetarian", "vegan", "gluten-free", "keto", "low-carb">>

(* C7: extract_dietary_tags returns a duplicate-free subsequence of vegetarian, *)
(* vegan, gluten-free, keto, low-carb in that order, each tag present exactly    *)
(* when its rule holds: vegetarian iff no meat word in the ingredients, vegan    *)
(* iff neither a meat nor a dairy/egg word, gluten-free, keto and low-carb iff   *)
(* their keyword phrases occur; so vegan implies vegetarian, low-carb keto.      *)
C7_DietaryTags ==
    pc = "return" =>
        LET ingredientText == join(" ", ingredients)
            keywordText == join(" ", keywords)
            meat == \E w \in {"chicken", "beef", "pork", "lamb", "meat", "fish", "seafood"} :
                        OccursIgnoringCase(ingredientText, w)
            dairy == \E w \in {"milk", "cheese", "butter", "cream", "egg"} :
                        OccursIgnoringCase(ingredientText, w)
            lowCarb == OccursIgnoringCase(keywordText, "low-carb")
                           \/ OccursIgnoringCase(keywordText, "low carb")
            has(t) == \E k \in 1..Len(tags) : tags[k] = t
        IN /\ \A k \in 1..Len(tags) : tags[k] \in {TagOrder[j] : j \in 1..Len(TagOrder)}
           /\ \A a, b \in 1..Len(tags) :
                 a < b => \E j, k \in 1..Len(TagOrder) :
                              j < k /\ TagOrder[j] = tags[a] /\ TagOrder[k] = tags[b]
           /\ has("vegetarian") <=> ~meat
           /\ has("vegan") <=> (~meat /\ ~dairy)
           /\ has("gluten-free") <=> (OccursIgnoringCase(keywordText, "gluten-free")
                                         \/ OccursIgnoringCase(keywordText, "gluten free"))
           /\ has("keto") <=> (OccursIgnoringCase(keywordText, "keto") \/ lowCarb)
           /\ has("low-carb") <=> lowCarb
           /\ has("vegan") => has("vegetarian")
           /\ has("low-carb") => has("keto")

(* Keywords 'low' and 'carb' join to 'low carb': keto and low-carb, after the *)
(* vegetarian and vegan of a meatless, dairy-free ingredient list.            *)
C7_Witness ==
    /\ pc = "return" /\ ingredients = <<"lentils", "rice">> /\ keywords = <<"low", "carb">>
    /\ tags = <<"vegetarian", "vegan", "keto", "low-carb">>

---------------------------------------------------------------------------
(* create_sample_recipes                                                   *)
(*                                                                         *)
(* A record keeps the fields the properties read: id, prepTime, cookTime,  *)
(* totalTime, difficulty, cuisine and instructions.  The other fields      *)
(* (title, image, description, servings, mealType, ingredients, nutrition, *)
(* dietaryTags, videoId) are written once and read by nothing modelled.    *)

MaxCount == 2

cuisine_choices == <<"indian", "chinese", "italian", "mexican", "thai", "international">>
difficulties == <<"Easy", "Medium", "Hard">>

(* random.choice(list): any element *)
choice(list) == {list[k] : k \in 1..Len(list)}

(* random.randint(a, b): an integer of a..b; the draws enumerated are its two ends *)
randint(a, b) == {x \in a..b : x = a \/ x = b}

(* str(n), n >= 0 *)
RECURSIVE str(_)
str(n) == IF n < 10 THEN Char(Digits, n + 1) ELSE str(n \div 10) \o Char(Digits, (n % 10) + 1)

(* the format specification 0{width}d on a digit string *)
RECURSIVE zero_pad(_, _)
zero_pad(s, width) == IF Len(s) >= width THEN s ELSE zero_pad("0" \o s, width)

recipe_id_zero_based(idx) == "recipe_" \o zero_pad(str(idx), 4)

(* f"recipe_{i+1:04d}" *)
recipe_id(idx) == "recipe_" \o zero_pad(str(idx + 1), 4)

sum_times_cook_only(prep_time, cook_time) == cook_time

(* total_time = prep_time + cook_time *)
sum_times(prep_time, cook_time) == prep_time + cook_time

instructions_template ==
    << [step |-> 1, text |-> "Prepare all ingredients"],
       [step |-> 2, text |-> "Cook for 20 minutes"],
       [step |-> 3, text |-> "Serve hot"] >>

(* the dict one pass of the loop body builds *)
recipe(idx, c, d, prep_time, cook_time) ==
    [ id |-> recipe_id(idx),
      prepTime |-> prep_time,
      cookTime |-> cook_time,
      totalTime |-> sum_times(prep_time, cook_time),
      difficulty |-> d,
      cuisine |-> c,
      instructions |-> instructions_template ]

InitGen ==
    /\ pc = "loop"
    /\ count \in 0..MaxCount
    /\ i = 0
    /\ sample_recipes = <<>>
    /\ IdleClean /\ IdleTime /\ IdleDifficulty /\ IdleClassify /\ IdleMain

(* one pass of for i in range(count) *)
GenerateRecipe ==
    /\ pc = "loop"
    /\ i < count
    /\ \E c \in choice(cuisine_choices), d \in choice(difficulties),
          prep_time \in randint(5, 30), cook_time \in randint(10, 90) :
            sample_recipes' = Append(sample_recipes, recipe(i, c, d, prep_time, cook_time))
    /\ i' = i + 1
    /\ UNCHANGED <<pc, count, cleanVars, timeVars, difficultyVars, classifyVars, mainVars>>

(* the loop is over: return sample_recipes *)
ReturnRecipes ==
    /\ pc = "loop"
    /\ i >= count
    /\ pc' = "returned"
    /\ UNCHANGED <<genVars, cleanVars, timeVars, difficultyVars, classifyVars, mainVars>>

NextGen == GenerateRecipe \/ ReturnRecipes

SpecGen == InitGen /\ [][NextGen]_vars

(* C1: create_sample_recipes(N) returns exactly N records, the record at        *)
(* 0-based index k-1 has id 'recipe_' followed by k as 4 zero-padded digits,    *)
(* and any two distinct records have different ids.                             *)
C1_SequentialUniqueIds ==
    pc = "returned" =>
        /\ Len(sample_recipes) = count
        /\ \A k \in 1..Len(sample_recipes) :
              LET id == sample_recipes[k].id
              IN /\ Len(id) >= 11
                 /\ k <= 9999 => Len(id) = 11
                 /\ SubSeq(id, 1, 7) = "recipe_"
                 /\ \A j \in 8..Len(id) : IsDigit(Char(id, j))
                 /\ int(SubSeq(id, 8, Len(id))) = k
        /\ \A j, k \in 1..Len(sample_recipes) :
              j # k => sample_recipes[j].id # sample_recipes[k].id

(* Two records returned for a count of 2: recipe_0001 then recipe_0002. *)
C1_Witness ==
    /\ pc = "returned" /\ count = 2 /\ Len(sample_recipes) = 2
    /\ sample_recipes[1].id = "recipe_0001" /\ sample_recipes[2].id = "recipe_0002"

(* C8: the difficulty of every record create_sample_recipes returns equals      *)
(* determine_difficulty(number of its instruction steps, its totalTime).        *)
C8_DifficultyDerived ==
    pc = "returned" =>
        \A k \in 1..Len(sample_recipes) :
            LET r == sample_recipes[k]
            IN r.difficulty = determine_difficulty(Len(r.instructions), r.totalTime)

(* C9: in every record generated, prepTime, cookTime and totalTime are          *)
(* non-negative integers and totalTime = prepTime + cookTime.                   *)
C9_TotalTime ==
    \A k \in 1..Len(sample_recipes) :
        LET r == sample_recipes[k]
        IN /\ r.prepTime \in Nat /\ r.cookTime \in Nat /\ r.totalTime \in Nat
           /\ r.totalTime = r.prepTime + r.cookTime

(* A returned record that drew the longest times: 30 + 90 = 120 minutes. *)
C9_Witness ==
    /\ pc = "returned" /\ Len(sample_recipes) = 2
    /\ sample_recipes[2].prepTime = 30 /\ sample_recipes[2].cookTime = 90
    /\ sample_recipes[2].totalTime = 120

---------------------------------------------------------------------------
(* main                                                                    *)
(*                                                                         *)
(* main runs create_sample_recipes, opens the output file for writing,     *)
(* json.dump writes the document to it piece by piece, the with block      *)
(* closes it, and the report is printed.  An OSError raised by open or by  *)
(* a write is caught nowhere: it ends the run.                             *)

(* The count main passes, 50 in the code, scaled down to keep the lists enumerable. *)
MainCount == 2

output_path == "../public/data/recipes.json"

(* the JSON text of one record *)
dumps(r) ==
    "{\"id\": \"" \o r.id \o "\", \"prepTime\": " \o str(r.prepTime)
        \o ", \"cookTime\": " \o str(r.cookTime)
        \o ", \"totalTime\": " \o str(r.totalTime)
        \o ", \"difficulty\": \"" \o r.difficulty
        \o "\", \"cuisine\": \"" \o r.cuisine
        \o "\", \"steps\": " \o str(Len(r.instructions)) \o "}"

(* The document json.dump(recipes, f) writes, as the pieces that reach the file *)
(* in turn: the opening bracket, each record, the closing bracket.              *)
json_chunks(list) ==
    IF list = <<>> THEN << "[]" >>
    ELSE << "[" >>
         \o [k \in 1..Len(list) |-> dumps(list[k]) \o (IF k < Len(list) THEN "," ELSE "")]
         \o << "]" >>

(* a < b for strings of lowercase letters, as sorted() orders the dict keys *)
RECURSIVE str_less(_, _)
str_less(a, b) ==
    IF b = "" THEN FALSE
    ELSE IF a = "" THEN TRUE
    ELSE IF Char(a, 1) # Char(b, 1)
         THEN IndexIn(LowerLetters, Char(a, 1)) < IndexIn(LowerLetters, Char(b, 1))
    ELSE str_less(SubSeq(a, 2, Len(a)), SubSeq(b, 2, Len(b)))

RECURSIVE sorted(_)
sorted(S) ==
    IF S = {} THEN <<>>
    ELSE LET least == CHOOSE x \in S : \A y \in S \ {x} : str_less(x, y)
         IN <<least>> \o sorted(S \ {least})

(* cuisines[cuisine] = cuisines.get(cuisine, 0) + 1 over the list: the count of a key *)
cuisine_count(list, c) == Cardinality({k \in 1..Len(list) : list[k].cuisine = c})

(* the lines printed after the file is closed *)
report(list) ==
    LET keys == sorted({list[k].cuisine : k \in 1..Len(list)})
    IN << "Recipes saved to: " \o output_path,
          "Preprocessing complete!",
          "Dataset Statistics:",
          "Total recipes: " \o str(Len(list)),
          "Recipes by cuisine:" >>
       \o [k \in 1..Len(keys) |-> "  " \o keys[k] \o ": " \o str(cuisine_count(list, keys[k]))]

InitMain ==
    /\ pc = "start"
    /\ recipes = <<>>
    /\ file \in { [exists |-> FALSE, content |-> <<>>],
                  [exists |-> TRUE, content |-> << "[]" >>] }
    /\ written = 0
    /\ console = <<>>
    /\ IdleClean /\ IdleTime /\ IdleDifficulty /\ IdleClassify /\ IdleGen

(* the banner, then the call create_sample_recipes(...) *)
MainStart ==
    /\ pc = "start"
    /\ console' = console \o << "Smart Meal Recipe Preprocessing",
                                "==================================================",
                                "Creating sample recipes for initial testing..." >>
    /\ count' = MainCount
    /\ i' = 0
    /\ sample_recipes' = <<>>
    /\ pc' = "loop"
    /\ UNCHANGED <<recipes, file, written, cleanVars, timeVars, difficultyVars, classifyVars>>

(* recipes = the list returned; print its length *)
MainGenerated ==
    /\ pc = "returned"
    /\ recipes' = sample_recipes
    /\ console' = Append(console, "Generated " \o str(Len(sample_recipes)) \o " sample recipes")
    /\ pc' = "open"
    /\ UNCHANGED <<file, written, genVars, cleanVars, timeVars, difficultyVars, classifyVars>>

(* open(output_path, 'w') succeeds: the file exists and is empty *)
OpenOk ==
    /\ pc = "open"
    /\ file' = [exists |-> TRUE, content |-> <<>>]
    /\ written' = 0
    /\ pc' = "dump"
    /\ UNCHANGED <<recipes, console, genVars, cleanVars, timeVars, difficultyVars, classifyVars>>

(* open raises OSError (no directory, no permission): the file is left as it was *)
OpenFail ==
    /\ pc = "open"
    /\ pc' = "aborted"
    /\ UNCHANGED <<mainVars, genVars, cleanVars, timeVars, difficultyVars, classifyVars>>

(* the next piece of the document reaches the file *)
DumpChunk ==
    /\ pc = "dump"
    /\ written < Len(json_chunks(recipes))
    /\ file' = [file EXCEPT !.content = Append(@, json_chunks(recipes)[written + 1])]
    /\ written' = written + 1
    /\ UNCHANGED <<pc, recipes, console, genVars, cleanVars, timeVars, difficultyVars, classifyVars>>

(* a write, or the flush of close, raises OSError (disk full, I/O error): the   *)
(* with block closes the file and the exception leaves main                     *)
DumpFail ==
    /\ pc = "dump"
    /\ pc' = "aborted"
    /\ UNCHANGED <<mainVars, genVars, cleanVars, timeVars, difficultyVars, classifyVars>>

(* everything is written and the with block closes the file *)
CloseOk ==
    /\ pc = "dump"
    /\ written = Len(json_chunks(recipes))
    /\ pc' = "saved"
    /\ UNCHANGED <<mainVars, genVars, cleanVars, timeVars, difficultyVars, classifyVars>>

(* the messages and the cuisine statistics *)
Report ==
    /\ pc = "saved"
    /\ console' = console \o report(recipes)
    /\ pc' = "done"
    /\ UNCHANGED <<recipes, file, written, genVars, cleanVars, timeVars, difficultyVars, classifyVars>>

NextMain ==
    \/ MainStart
    \/ GenerateRecipe
    \/ ReturnRecipes
    \/ MainGenerated
    \/ OpenOk
    \/ OpenFail
    \/ DumpChunk
    \/ DumpFail
    \/ CloseOk
    \/ Report

SpecMain == InitMain /\ [][NextMain]_vars

Printed(line) == \E k \in 1..Len(console) : console[k] = line

(* The file holds a proper, non-empty beginning of the document. *)
PartiallyWritten ==
    LET doc == json_chunks(recipes)
    IN /\ file.exists
       /\ 0 < Len(file.content) /\ Len(file.content) < Len(doc)
       /\ file.content = SubSeq(doc, 1, Len(file.content))

(* C10: a run of main is all-or-nothing: it ends either with the file holding   *)
(* the complete document and the statistics printed, or aborted by the I/O      *)
(* error with no 'Recipes saved' message, no statistics, and a file that does   *)
(* not hold a partially written document.                                       *)
C10_AllOrNothing ==
    /\ pc = "done" =>
          /\ file.exists /\ file.content = json_chunks(recipes)
          /\ Printed("Recipes saved to: " \o output_path)
          /\ Printed("Recipes by cuisine:")
    /\ pc = "aborted" =>
          /\ ~Printed("Recipes saved to: " \o output_path)
          /\ ~Printed("Recipes by cuisine:")
          /\ ~PartiallyWritten

===========================================================================
